---- MODULE Spec2Model ----
(***************************************************************************)
(* Model of gollback.go: the Engine built by New, and the two combinators  *)
(* Race and All, at the granularity of the shared accesses each goroutine  *)
(* makes (the context, the result channel, the output slices, the          *)
(* WaitGroup).                                                             *)
(***************************************************************************)
EXTENDS Integers, Sequences, FiniteSets, TLC

\* ------------------------------------------------------------------ bounds
MaxOps == 3        \* most operations passed to the call on a fresh Engine (Spec)
MaxCalls == 2      \* most Race/All calls made on one Engine (SpecReuse)
MaxReuseOps == 1   \* most operations passed to each call of a reused Engine (SpecReuse)
MaxFairOps == 2    \* most operations passed to the call under fair scheduling (SpecFair)

\* --------------------------------------------------------------- constants
Nil == 0           \* the nil interface{} / nil error
OutCap == 1        \* make(chan *response, 1)

OpKinds == {"ok", "fail"}
\* the operations of SpecFair: also the cooperative one, which returns only
\* once it has observed the cancellation
FairKinds == OpKinds \cup {"coop"}
CallKinds == {"Race", "All"}

\* response{res, err} before assignment (var r response)
ZeroResponse == [res |-> Nil, err |-> Nil]

\* What the AsyncFunc at 0-based position index returns: an "ok" operation
\* returns (index+1, nil), a "fail" operation returns (nil, error index+1).
AsyncFunc(k, index) ==
    IF k = "ok" THEN [res |-> index + 1, err |-> Nil]
                ELSE [res |-> Nil, err |-> index + 1]

\* the 0-based index a goroutine is started with, for the 1-based position i
Index(i) == i - 1

SeqsUpTo(S, n) == UNION {[1..m -> S] : m \in 0..n}

VARIABLES
    parentDone,   \* the context given to New has been cancelled
    ctxDone,      \* p.ctx is cancelled (p.cancel called, or the parent cancelled)
    cur,          \* number of Race/All calls started on the Engine
    kind,         \* kind[c]: "none", "Race" or "All"
    fns,          \* fns[c]: the operations of call c
    pc,           \* pc[c][i]: position of the goroutine of operation i
    r,            \* r[c][i]: the goroutine's local response
    out,          \* out[c]: content of Race's result channel
    rs,           \* rs[c]: All's value slice
    errs,         \* errs[c]: All's error slice
    wg,           \* wg[c]: All's WaitGroup counter
    mainpc,       \* mainpc[c]: position of the caller inside call c
    ret,          \* ret[c]: what call c returned
    soloReturn,   \* history: the operation of Race call c that returned while
                  \* every other one was inside its call (0: none)
    soloTrigger,  \* history: the goroutine of Race call c that called p.cancel
                  \* while every other operation was inside its call (0: none)
    flag,         \* flag[c][i]: the cooperative operation i has observed the
                  \* cancellation and set its flag
    nInvoke,      \* nInvoke[c][i]: how often goroutine i has called its operation
    nCheck        \* nCheck[c][i]: how often goroutine i has looked at p.ctx

vars == <<parentDone, ctxDone, cur, kind, fns, pc, r, out, rs, errs, wg, mainpc, ret,
          soloReturn, soloTrigger, flag, nInvoke, nCheck>>
hist == <<soloReturn, soloTrigger>>
counts == <<nInvoke, nCheck>>

Calls == 1..MaxCalls
Ops(c) == 1..Len(fns[c])

\* ------------------------------------------------------------------- New
Init ==
    /\ parentDone = FALSE
    /\ ctxDone = FALSE
    /\ cur = 0
    /\ kind = [c \in Calls |-> "none"]
    /\ fns = [c \in Calls |-> <<>>]
    /\ pc = [c \in Calls |-> <<>>]
    /\ r = [c \in Calls |-> <<>>]
    /\ out = [c \in Calls |-> <<>>]
    /\ rs = [c \in Calls |-> <<>>]
    /\ errs = [c \in Calls |-> <<>>]
    /\ wg = [c \in Calls |-> 0]
    /\ mainpc = [c \in Calls |-> "none"]
    /\ ret = [c \in Calls |-> ZeroResponse]
    /\ soloReturn = [c \in Calls |-> 0]
    /\ soloTrigger = [c \in Calls |-> 0]
    /\ flag = [c \in Calls |-> <<>>]
    /\ nInvoke = [c \in Calls |-> <<>>]
    /\ nCheck = [c \in Calls |-> <<>>]

\* cancellation of the parent context propagates to the derived context
ParentCancel ==
    /\ ~parentDone
    /\ parentDone' = TRUE
    /\ ctxDone' = TRUE
    /\ UNCHANGED <<cur, kind, fns, pc, r, out, rs, errs, wg, mainpc, ret, hist, flag, counts>>

\* where the caller stands once the launch loop is over
AfterLaunch(k) == IF k = "Race" THEN "recv" ELSE "wait"

\* variant: the WaitGroup counts one goroutine too few
WgAddShort(n) == IF n > 0 THEN n - 1 ELSE 0

\* the initial value of WaitGroup: wg.Add(len(fns))
WgAdd(n) == n

\* variant: each call derives a context of its own
StartCallFreshScope(k, f) ==
    /\ cur < MaxCalls
    /\ IF cur = 0 THEN TRUE ELSE mainpc[cur] = "returned"
    /\ cur' = cur + 1
    /\ kind' = [kind EXCEPT ![cur + 1] = k]
    /\ fns' = [fns EXCEPT ![cur + 1] = f]
    /\ pc' = [pc EXCEPT ![cur + 1] = [i \in 1..Len(f) |-> "idle"]]
    /\ r' = [r EXCEPT ![cur + 1] = [i \in 1..Len(f) |-> ZeroResponse]]
    /\ out' = [out EXCEPT ![cur + 1] = <<>>]
    /\ flag' = [flag EXCEPT ![cur + 1] = [i \in 1..Len(f) |-> FALSE]]
    /\ nInvoke' = [nInvoke EXCEPT ![cur + 1] = [i \in 1..Len(f) |-> 0]]
    /\ nCheck' = [nCheck EXCEPT ![cur + 1] = [i \in 1..Len(f) |-> 0]]
    /\ rs' = [rs EXCEPT ![cur + 1] = IF k = "All" THEN [i \in 1..Len(f) |-> Nil] ELSE <<>>]
    /\ errs' = [errs EXCEPT ![cur + 1] = IF k = "All" THEN [i \in 1..Len(f) |-> Nil] ELSE <<>>]
    /\ wg' = [wg EXCEPT ![cur + 1] = IF k = "All" THEN Len(f) ELSE 0]
    /\ mainpc' = [mainpc EXCEPT ![cur + 1] = IF Len(f) = 0 THEN (IF k = "Race" THEN "recv" ELSE "wait") ELSE "launch"]
    /\ ctxDone' = parentDone
    /\ UNCHANGED <<parentDone, ret, hist>>

\* The caller enters Race or All with operations f: Race makes the channel,
\* All makes the two slices and adds len(fns) to the WaitGroup.
StartCall(k, f) ==
    /\ cur < MaxCalls
    /\ IF cur = 0 THEN TRUE ELSE mainpc[cur] = "returned"
    /\ cur' = cur + 1
    /\ kind' = [kind EXCEPT ![cur + 1] = k]
    /\ fns' = [fns EXCEPT ![cur + 1] = f]
    /\ pc' = [pc EXCEPT ![cur + 1] = [i \in 1..Len(f) |-> "idle"]]
    /\ r' = [r EXCEPT ![cur + 1] = [i \in 1..Len(f) |-> ZeroResponse]]
    /\ out' = [out EXCEPT ![cur + 1] = <<>>]
    /\ flag' = [flag EXCEPT ![cur + 1] = [i \in 1..Len(f) |-> FALSE]]
    /\ nInvoke' = [nInvoke EXCEPT ![cur + 1] = [i \in 1..Len(f) |-> 0]]
    /\ nCheck' = [nCheck EXCEPT ![cur + 1] = [i \in 1..Len(f) |-> 0]]
    /\ rs' = [rs EXCEPT ![cur + 1] = IF k = "All" THEN [i \in 1..Len(f) |-> Nil] ELSE <<>>]
    /\ errs' = [errs EXCEPT ![cur + 1] = IF k = "All" THEN [i \in 1..Len(f) |-> Nil] ELSE <<>>]
    /\ wg' = [wg EXCEPT ![cur + 1] = IF k = "All" THEN WgAdd(Len(f)) ELSE 0]
    /\ mainpc' = [mainpc EXCEPT ![cur + 1] = IF Len(f) = 0 THEN AfterLaunch(k) ELSE "launch"]
    /\ UNCHANGED <<parentDone, ctxDone, ret, hist>>

\* the first call on the Engine that New returned
FirstCall(k, f) ==
    /\ cur = 0
    /\ StartCall(k, f)

\* a later call on the same Engine, made once the previous call has returned
AgainCall(k, f) ==
    /\ cur > 0
    /\ StartCall(k, f)

\* for i, fn := range fns { go func(index, f) {...}(i, fn) }
Launch(c, i) ==
    /\ mainpc[c] = "launch"
    /\ i \in Ops(c)
    /\ pc[c][i] = "idle"
    /\ \A j \in 1..(i - 1) : pc[c][j] # "idle"
    /\ pc' = [pc EXCEPT ![c][i] = "check"]
    /\ mainpc' = [mainpc EXCEPT ![c] = IF i = Len(fns[c]) THEN AfterLaunch(kind[c]) ELSE "launch"]
    /\ UNCHANGED <<parentDone, ctxDone, cur, kind, fns, r, out, rs, errs, wg, ret, hist, flag, counts>>

\* A cooperative operation ("coop") waits for <-ctx.Done(), sets its flag
\* and returns an error; the other operations return when they like.
MayReturn(k) == k = "coop" => ctxDone

\* every operation of call c other than i is inside f
OthersInCall(c, i) == \A j \in Ops(c) \ {i} : pc[c][j] = "call"

\* ------------------------------------------------------------------ Race
\* variant: the goroutine calls its operation without looking at the context
RaceCheckNoCtx(c, i) ==
    /\ kind[c] = "Race"
    /\ i \in Ops(c)
    /\ pc[c][i] = "check"
    /\ pc' = [pc EXCEPT ![c][i] = "call"]
    /\ nInvoke' = [nInvoke EXCEPT ![c][i] = @ + 1]
    /\ UNCHANGED <<parentDone, ctxDone, cur, kind, fns, r, out, rs, errs, wg, mainpc, ret, hist, flag, nCheck>>

\* select { case <-p.ctx.Done(): return; default: ... f(p.ctx) }
RaceCheck(c, i) ==
    /\ kind[c] = "Race"
    /\ i \in Ops(c)
    /\ pc[c][i] = "check"
    /\ pc' = [pc EXCEPT ![c][i] = IF ctxDone THEN "skipped" ELSE "call"]
    /\ nCheck' = [nCheck EXCEPT ![c][i] = @ + 1]
    /\ nInvoke' = [nInvoke EXCEPT ![c][i] = IF ctxDone THEN @ ELSE @ + 1]
    /\ UNCHANGED <<parentDone, ctxDone, cur, kind, fns, r, out, rs, errs, wg, mainpc, ret, hist, flag>>

\* r.res, r.err = f(p.ctx): the operation returns
RaceCall(c, i) ==
    /\ kind[c] = "Race"
    /\ i \in Ops(c)
    /\ pc[c][i] = "call"
    /\ MayReturn(fns[c][i])
    /\ flag' = [flag EXCEPT ![c][i] = (fns[c][i] = "coop")]
    /\ r' = [r EXCEPT ![c][i] = AsyncFunc(fns[c][i], Index(i))]
    /\ pc' = [pc EXCEPT ![c][i] = "recheck"]
    /\ soloReturn' = [soloReturn EXCEPT ![c] = IF OthersInCall(c, i) THEN i ELSE @]
    /\ UNCHANGED <<parentDone, ctxDone, cur, kind, fns, out, rs, errs, wg, mainpc, ret, soloTrigger, counts>>

\* variant: every goroutine publishes, whatever its operation returned
ShouldPublishAny(resp, index, n) == TRUE

\* variant: the fallback is the first operation instead of the last
ShouldPublishFirst(resp, index, n) == resp.err = Nil \/ index = 0

\* variant: only a success is published, there is no fallback
ShouldPublishSuccessOnly(resp, index, n) == resp.err = Nil

\* if r.err == nil || index == len(fns)-1
ShouldPublish(resp, index, n) == resp.err = Nil \/ index = n - 1

\* variant: the goroutine does not look at the context after the operation
RaceRecheckNoCtx(c, i) ==
    /\ kind[c] = "Race"
    /\ i \in Ops(c)
    /\ pc[c][i] = "recheck"
    /\ pc' = [pc EXCEPT ![c][i] =
                IF ShouldPublish(r[c][i], Index(i), Len(fns[c])) THEN "cancel"
                ELSE "exited"]
    /\ UNCHANGED <<parentDone, ctxDone, cur, kind, fns, r, out, rs, errs, wg, mainpc, ret, hist, flag, counts>>

\* variant: the return that ends the loop body is missing, so a goroutine
\* that does not publish goes round the for loop again
RaceRecheckRetry(c, i) ==
    /\ kind[c] = "Race"
    /\ i \in Ops(c)
    /\ pc[c][i] = "recheck"
    /\ pc' = [pc EXCEPT ![c][i] =
                IF ctxDone THEN "discarded"
                ELSE IF ShouldPublish(r[c][i], Index(i), Len(fns[c])) THEN "cancel"
                ELSE "check"]
    /\ nCheck' = [nCheck EXCEPT ![c][i] = @ + 1]
    /\ UNCHANGED <<parentDone, ctxDone, cur, kind, fns, r, out, rs, errs, wg, mainpc, ret, hist, flag, nInvoke>>

\* if p.ctx.Err() != nil { return }, then the test that guards the publish
RaceRecheck(c, i) ==
    /\ kind[c] = "Race"
    /\ i \in Ops(c)
    /\ pc[c][i] = "recheck"
    /\ pc' = [pc EXCEPT ![c][i] =
                IF ctxDone THEN "discarded"
                ELSE IF ShouldPublish(r[c][i], Index(i), Len(fns[c])) THEN "cancel"
                ELSE "exited"]
    /\ nCheck' = [nCheck EXCEPT ![c][i] = @ + 1]
    /\ UNCHANGED <<parentDone, ctxDone, cur, kind, fns, r, out, rs, errs, wg, mainpc, ret, hist, flag, nInvoke>>

\* variant: the goroutine sends without calling p.cancel
RaceCancelSkip(c, i) ==
    /\ kind[c] = "Race"
    /\ i \in Ops(c)
    /\ pc[c][i] = "cancel"
    /\ pc' = [pc EXCEPT ![c][i] = "send"]
    /\ soloTrigger' = [soloTrigger EXCEPT ![c] = IF OthersInCall(c, i) THEN i ELSE @]
    /\ UNCHANGED <<parentDone, ctxDone, cur, kind, fns, r, out, rs, errs, wg, mainpc, ret, soloReturn, flag, counts>>

\* p.cancel()
RaceCancel(c, i) ==
    /\ kind[c] = "Race"
    /\ i \in Ops(c)
    /\ pc[c][i] = "cancel"
    /\ ctxDone' = TRUE
    /\ pc' = [pc EXCEPT ![c][i] = "send"]
    /\ soloTrigger' = [soloTrigger EXCEPT ![c] = IF OthersInCall(c, i) THEN i ELSE @]
    /\ UNCHANGED <<parentDone, cur, kind, fns, r, out, rs, errs, wg, mainpc, ret, soloReturn, flag, counts>>

\* out <- &r: blocks while the channel's buffer is full
RaceSend(c, i) ==
    /\ kind[c] = "Race"
    /\ i \in Ops(c)
    /\ pc[c][i] = "send"
    /\ Len(out[c]) < OutCap
    /\ out' = [out EXCEPT ![c] = Append(out[c], r[c][i])]
    /\ pc' = [pc EXCEPT ![c][i] = "published"]
    /\ UNCHANGED <<parentDone, ctxDone, cur, kind, fns, r, rs, errs, wg, mainpc, ret, hist, flag, counts>>

\* variant: the caller also gives up when the context is cancelled
RaceRecvOrDone(c) ==
    /\ kind[c] = "Race"
    /\ mainpc[c] = "recv"
    /\ Len(out[c]) > 0 \/ ctxDone
    /\ ret' = [ret EXCEPT ![c] = IF Len(out[c]) > 0 THEN Head(out[c]) ELSE ZeroResponse]
    /\ out' = [out EXCEPT ![c] = IF Len(out[c]) > 0 THEN Tail(out[c]) ELSE out[c]]
    /\ mainpc' = [mainpc EXCEPT ![c] = "returned"]
    /\ UNCHANGED <<parentDone, ctxDone, cur, kind, fns, pc, r, rs, errs, wg, hist, flag, counts>>

\* r := <-out; return r.res, r.err
RaceRecv(c) ==
    /\ kind[c] = "Race"
    /\ mainpc[c] = "recv"
    /\ Len(out[c]) > 0
    /\ ret' = [ret EXCEPT ![c] = Head(out[c])]
    /\ out' = [out EXCEPT ![c] = Tail(out[c])]
    /\ mainpc' = [mainpc EXCEPT ![c] = "returned"]
    /\ UNCHANGED <<parentDone, ctxDone, cur, kind, fns, pc, r, rs, errs, wg, hist, flag, counts>>

\* ------------------------------------------------------------------- All
\* select { case <-p.ctx.Done(): return; default: ... f(p.ctx) }; the
\* deferred wg.Done() runs on the early return
AllCheck(c, i) ==
    /\ kind[c] = "All"
    /\ i \in Ops(c)
    /\ pc[c][i] = "check"
    /\ pc' = [pc EXCEPT ![c][i] = IF ctxDone THEN "skipped" ELSE "call"]
    /\ wg' = [wg EXCEPT ![c] = IF ctxDone THEN wg[c] - 1 ELSE wg[c]]
    /\ nCheck' = [nCheck EXCEPT ![c][i] = @ + 1]
    /\ nInvoke' = [nInvoke EXCEPT ![c][i] = IF ctxDone THEN @ ELSE @ + 1]
    /\ UNCHANGED <<parentDone, ctxDone, cur, kind, fns, r, out, rs, errs, mainpc, ret, hist, flag>>

\* r.res, r.err = f(p.ctx): the operation returns
AllCall(c, i) ==
    /\ kind[c] = "All"
    /\ i \in Ops(c)
    /\ pc[c][i] = "call"
    /\ MayReturn(fns[c][i])
    /\ flag' = [flag EXCEPT ![c][i] = (fns[c][i] = "coop")]
    /\ r' = [r EXCEPT ![c][i] = AsyncFunc(fns[c][i], Index(i))]
    /\ pc' = [pc EXCEPT ![c][i] = "recheck"]
    /\ UNCHANGED <<parentDone, ctxDone, cur, kind, fns, out, rs, errs, wg, mainpc, ret, hist, counts>>

\* variant: a goroutine whose operation failed cancels the context
AllRecheckShortCircuit(c, i) ==
    /\ kind[c] = "All"
    /\ i \in Ops(c)
    /\ pc[c][i] = "recheck"
    /\ pc' = [pc EXCEPT ![c][i] = IF ctxDone THEN "discarded" ELSE "storeRes"]
    /\ wg' = [wg EXCEPT ![c] = IF ctxDone THEN wg[c] - 1 ELSE wg[c]]
    /\ ctxDone' = (ctxDone \/ r[c][i].err # Nil)
    /\ nCheck' = [nCheck EXCEPT ![c][i] = @ + 1]
    /\ UNCHANGED <<parentDone, cur, kind, fns, r, out, rs, errs, mainpc, ret, hist, flag, nInvoke>>

\* variant: the goroutine stores its result without looking at the context
AllRecheckNoCtx(c, i) ==
    /\ kind[c] = "All"
    /\ i \in Ops(c)
    /\ pc[c][i] = "recheck"
    /\ pc' = [pc EXCEPT ![c][i] = "storeRes"]
    /\ UNCHANGED <<parentDone, ctxDone, cur, kind, fns, r, out, rs, errs, wg, mainpc, ret, hist, flag, counts>>

\* if p.ctx.Err() != nil { return }
AllRecheck(c, i) ==
    /\ kind[c] = "All"
    /\ i \in Ops(c)
    /\ pc[c][i] = "recheck"
    /\ pc' = [pc EXCEPT ![c][i] = IF ctxDone THEN "discarded" ELSE "storeRes"]
    /\ wg' = [wg EXCEPT ![c] = IF ctxDone THEN wg[c] - 1 ELSE wg[c]]
    /\ nCheck' = [nCheck EXCEPT ![c][i] = @ + 1]
    /\ UNCHANGED <<parentDone, ctxDone, cur, kind, fns, r, out, rs, errs, mainpc, ret, hist, flag, nInvoke>>

\* variant: every goroutine writes the first slot
SlotFirst(index) == 1

\* the slot of the output slices the goroutine started with index writes
Slot(index) == index + 1

\* rs[index] = r.res
AllStoreRes(c, i) ==
    /\ kind[c] = "All"
    /\ i \in Ops(c)
    /\ pc[c][i] = "storeRes"
    /\ rs' = [rs EXCEPT ![c][Slot(Index(i))] = r[c][i].res]
    /\ pc' = [pc EXCEPT ![c][i] = "storeErr"]
    /\ UNCHANGED <<parentDone, ctxDone, cur, kind, fns, r, out, errs, wg, mainpc, ret, hist, flag, counts>>

\* errs[index] = r.err; return, running the deferred wg.Done()
AllStoreErr(c, i) ==
    /\ kind[c] = "All"
    /\ i \in Ops(c)
    /\ pc[c][i] = "storeErr"
    /\ errs' = [errs EXCEPT ![c][Slot(Index(i))] = r[c][i].err]
    /\ wg' = [wg EXCEPT ![c] = wg[c] - 1]
    /\ pc' = [pc EXCEPT ![c][i] = "stored"]
    /\ UNCHANGED <<parentDone, ctxDone, cur, kind, fns, r, out, rs, mainpc, ret, hist, flag, counts>>

\* variant: the caller does not wait for the goroutines
AllWaitNoBarrier(c) ==
    /\ kind[c] = "All"
    /\ mainpc[c] = "wait"
    /\ mainpc' = [mainpc EXCEPT ![c] = "cancel"]
    /\ UNCHANGED <<parentDone, ctxDone, cur, kind, fns, pc, r, out, rs, errs, wg, ret, hist, flag, counts>>

\* wg.Wait()
AllWait(c) ==
    /\ kind[c] = "All"
    /\ mainpc[c] = "wait"
    /\ wg[c] = 0
    /\ mainpc' = [mainpc EXCEPT ![c] = "cancel"]
    /\ UNCHANGED <<parentDone, ctxDone, cur, kind, fns, pc, r, out, rs, errs, wg, ret, hist, flag, counts>>

\* p.cancel()
AllCancel(c) ==
    /\ kind[c] = "All"
    /\ mainpc[c] = "cancel"
    /\ ctxDone' = TRUE
    /\ mainpc' = [mainpc EXCEPT ![c] = "return"]
    /\ UNCHANGED <<parentDone, cur, kind, fns, pc, r, out, rs, errs, wg, ret, hist, flag, counts>>

\* return rs, errs
AllReturn(c) ==
    /\ kind[c] = "All"
    /\ mainpc[c] = "return"
    /\ ret' = [ret EXCEPT ![c] = [rs |-> rs[c], errs |-> errs[c]]]
    /\ mainpc' = [mainpc EXCEPT ![c] = "returned"]
    /\ UNCHANGED <<parentDone, ctxDone, cur, kind, fns, pc, r, out, rs, errs, wg, hist, flag, counts>>

\* ------------------------------------------------------------ the system
\* the steps of the goroutines and of the caller inside a call
Step ==
    \/ \E c \in Calls : \E i \in Ops(c) : Launch(c, i)
    \/ \E c \in Calls : \E i \in Ops(c) : RaceCheck(c, i)
    \/ \E c \in Calls : \E i \in Ops(c) : RaceCall(c, i)
    \/ \E c \in Calls : \E i \in Ops(c) : RaceRecheck(c, i)
    \/ \E c \in Calls : \E i \in Ops(c) : RaceCancel(c, i)
    \/ \E c \in Calls : \E i \in Ops(c) : RaceSend(c, i)
    \/ \E c \in Calls : RaceRecv(c)
    \/ \E c \in Calls : \E i \in Ops(c) : AllCheck(c, i)
    \/ \E c \in Calls : \E i \in Ops(c) : AllCall(c, i)
    \/ \E c \in Calls : \E i \in Ops(c) : AllRecheck(c, i)
    \/ \E c \in Calls : \E i \in Ops(c) : AllStoreRes(c, i)
    \/ \E c \in Calls : \E i \in Ops(c) : AllStoreErr(c, i)
    \/ \E c \in Calls : AllWait(c)
    \/ \E c \in Calls : AllCancel(c)
    \/ \E c \in Calls : AllReturn(c)

\* one call on a fresh Engine
Next ==
    \/ ParentCancel
    \/ \E k \in CallKinds : \E f \in SeqsUpTo(OpKinds, MaxOps) : FirstCall(k, f)
    \/ Step

Spec == Init /\ [][Next]_vars

\* an Engine used for several calls, one after the other
NextReuse ==
    \/ ParentCancel
    \/ \E k \in CallKinds : \E f \in SeqsUpTo(OpKinds, MaxReuseOps) : FirstCall(k, f)
    \/ \E k \in CallKinds : \E f \in SeqsUpTo(OpKinds, MaxReuseOps) : AgainCall(k, f)
    \/ Step

SpecReuse == Init /\ [][NextReuse]_vars

\* the steps of the goroutine of operation i of call c
GoStep(c, i) ==
    \/ RaceCheck(c, i) \/ RaceCall(c, i) \/ RaceRecheck(c, i)
    \/ RaceCancel(c, i) \/ RaceSend(c, i)
    \/ AllCheck(c, i) \/ AllCall(c, i) \/ AllRecheck(c, i)
    \/ AllStoreRes(c, i) \/ AllStoreErr(c, i)

\* the steps of the caller inside call c
CallerStep(c) ==
    \/ \E i \in Ops(c) : Launch(c, i)
    \/ RaceRecv(c) \/ AllWait(c) \/ AllCancel(c) \/ AllReturn(c)

\* one call on a fresh Engine, operations possibly cooperative
NextFair ==
    \/ ParentCancel
    \/ \E k \in CallKinds : \E f \in SeqsUpTo(FairKinds, MaxFairOps) : FirstCall(k, f)
    \/ Step

\* The Go scheduler runs every runnable goroutine: the caller and each
\* goroutine take their next step when it stays enabled. An operation that
\* can return does return (a cooperative one once the context is cancelled).
Fairness ==
    /\ WF_vars(CallerStep(1))
    /\ \A i \in 1..MaxFairOps : WF_vars(GoStep(1, i))

SpecFair == Init /\ [][NextFair]_vars /\ Fairness

\* ------------------------------------------------------------ vocabulary
\* the goroutine has returned (a goroutine blocked in a send has not)
Terminated(c, i) == pc[c][i] \in {"skipped", "discarded", "exited", "published", "stored"}

\* the goroutine has called its operation
Invoked(c, i) == pc[c][i] \notin {"idle", "check", "skipped"}

\* the operation of goroutine i has returned to it
Returned(c, i) == pc[c][i] \notin {"idle", "check", "skipped", "call"}

\* call c is the first call on an Engine whose parent was never cancelled
Fresh(c) == c = 1 /\ ~parentDone

RaceReturned(c) == kind[c] = "Race" /\ mainpc[c] = "returned"
AllReturned(c) == kind[c] = "All" /\ mainpc[c] = "returned"

\* ------------------------------------------------------------------- C1
\* C1: when a Race call on a fresh Engine (parent never cancelled) has
\* returned and one of its operations has returned a value with no error,
\* the pair Race returned is (value, nil) of an operation that succeeded.
C1_RaceReturnsASuccess ==
    \A c \in Calls :
        (Fresh(c) /\ RaceReturned(c)
            /\ \E i \in Ops(c) : Returned(c, i) /\ r[c][i].err = Nil)
        => /\ ret[c].err = Nil
           /\ \E i \in Ops(c) : fns[c][i] = "ok" /\ ret[c] = AsyncFunc("ok", Index(i))

\* ------------------------------------------------------------------- C2
\* C2: when a Race call with N >= 1 operations on a fresh Engine (parent
\* never cancelled) has returned and every operation returns an error, the
\* pair it returned is the pair of the operation at index N-1.
C2_RaceFallback ==
    \A c \in Calls :
        (Fresh(c) /\ RaceReturned(c) /\ \A i \in Ops(c) : fns[c][i] = "fail")
        => /\ Len(fns[c]) >= 1
           /\ ret[c] = AsyncFunc(fns[c][Len(fns[c])], Len(fns[c]) - 1)
           /\ ret[c].err # Nil

\* three failing operations, the first has finished and exited, the second
\* is still inside its call, and Race has returned the third one's error
C2_Witness ==
    /\ Fresh(1) /\ RaceReturned(1)
    /\ fns[1] = <<"fail", "fail", "fail">>
    /\ pc[1][1] = "exited" /\ pc[1][2] = "call"
    /\ ret[1] = [res |-> Nil, err |-> 3]

\* ------------------------------------------------------------------- C3
\* C3 as written: if operation k returned with no error while every other
\* operation was inside its call, Race (fresh Engine, parent never
\* cancelled) returns k's pair.
C3_SoloReturnWins ==
    \A c \in Calls : \A k \in Ops(c) :
        (Fresh(c) /\ RaceReturned(c) /\ soloReturn[c] = k /\ r[c][k].err = Nil)
        => ret[c] = r[c][k]

\* C3 amended: if operation k returned with no error and every other
\* operation was still inside its call when k's goroutine triggered the
\* signal, then k's outcome is the one the caller receives: once k has
\* sent, it is the only content of the channel while the caller has not
\* received (no other goroutine is needed for the return), and the pair
\* Race returns is k's (value, nil).
C3_SoloTriggerWins ==
    \A c \in Calls : \A k \in Ops(c) :
        (Fresh(c) /\ kind[c] = "Race" /\ soloTrigger[c] = k /\ r[c][k].err = Nil)
        => /\ (pc[c][k] = "published" /\ mainpc[c] # "returned") => out[c] = <<r[c][k]>>
           /\ mainpc[c] = "returned" =>
                (ret[c] = r[c][k] /\ ret[c] = AsyncFunc("ok", Index(k)))
           /\ \A j \in Ops(c) \ {k} : pc[c][j] \notin {"cancel", "send", "published"}

\* Race has returned operation 2's value while operations 1 and 3 are still
\* inside their calls
C3_Witness ==
    /\ Fresh(1) /\ RaceReturned(1)
    /\ Len(fns[1]) = 3
    /\ soloTrigger[1] = 2
    /\ ret[1] = [res |-> 2, err |-> Nil]
    /\ pc[1][1] = "call" /\ pc[1][3] = "call"

\* ------------------------------------------------------------------- C4
\* C4: when an All call on a fresh Engine (parent never cancelled) has
\* returned, position i of the returned values and of the returned errors
\* holds the value and the error operation i returned.
C4_AllOrdering ==
    \A c \in Calls :
        (Fresh(c) /\ AllReturned(c))
        => \A i \in Ops(c) :
              /\ ret[c].rs[i] = AsyncFunc(fns[c][i], Index(i)).res
              /\ ret[c].errs[i] = AsyncFunc(fns[c][i], Index(i)).err

\* All on [ok, fail, ok] has returned values [1, nil, 3], errors [nil, 2, nil]
C4_Witness ==
    /\ Fresh(1) /\ AllReturned(1)
    /\ fns[1] = <<"ok", "fail", "ok">>
    /\ ret[1] = [rs |-> <<1, Nil, 3>>, errs |-> <<Nil, 2, Nil>>]

\* ------------------------------------------------------------------- C5
\* C5: once All is past its barrier (and so when it has returned), every
\* goroutine it launched has terminated, and both returned sequences have
\* exactly N entries (two empty sequences for N = 0).
C5_AllCompleteness ==
    \A c \in Calls :
        /\ (kind[c] = "All" /\ mainpc[c] \in {"cancel", "return", "returned"})
            => \A i \in Ops(c) : Terminated(c, i)
        /\ AllReturned(c)
            => /\ Len(ret[c].rs) = Len(fns[c])
               /\ Len(ret[c].errs) = Len(fns[c])

\* All with three operations has returned after one goroutine stored its
\* result and another exited early (the parent was cancelled meanwhile)
C5_Witness ==
    /\ AllReturned(1)
    /\ Len(fns[1]) = 3
    /\ \E i, j \in Ops(1) : pc[1][i] = "stored" /\ pc[1][j] \in {"skipped", "discarded"}
    /\ Len(ret[1].rs) = 3

\* ------------------------------------------------------------------- C6
\* C6: no goroutine stays blocked after Race has returned: a goroutine that
\* has reached the send on the result channel once Race has returned finds
\* room in the channel (nobody receives from it any more, so a full channel
\* blocks the sender for ever).
C6_NoSenderBlockedAfterReturn ==
    \A c \in Calls : \A i \in Ops(c) :
        (RaceReturned(c) /\ pc[c][i] = "send") => Len(out[c]) < OutCap

\* ------------------------------------------------------------------- C7
\* the caller of call c has returned or its next step is enabled
CallerCanProceed(c) ==
    \/ mainpc[c] \in {"launch", "cancel", "return", "returned"}
    \/ mainpc[c] = "wait" /\ wg[c] = 0
    \/ mainpc[c] = "recv" /\ Len(out[c]) > 0

\* C7 as written: a call made after an earlier call on the same Engine has
\* returned, with N >= 1 operations, invokes none of its operations and
\* returns to its caller: once all its goroutines have terminated, the
\* caller has returned or can take its next step.
C7_LaterCallReturns ==
    \A c \in Calls :
        (c > 1 /\ kind[c] # "none" /\ Len(fns[c]) >= 1)
        => /\ \A i \in Ops(c) : ~Invoked(c, i)
           /\ (\A i \in Ops(c) : Terminated(c, i)) => CallerCanProceed(c)

\* C7 amended: a call made after an earlier call on the same Engine has
\* returned invokes none of its operations; a later All call can always
\* proceed to its return and returns N absent values and N absent errors; a
\* later Race call gets no outcome published and never returns.
C7_LaterCallSkipsOperations ==
    \A c \in Calls :
        (c > 1 /\ kind[c] # "none")
        => /\ \A i \in Ops(c) : ~Invoked(c, i)
           /\ kind[c] = "All" =>
                /\ (\A i \in Ops(c) : Terminated(c, i)) => CallerCanProceed(c)
                /\ mainpc[c] = "returned" =>
                      ret[c] = [rs |-> [i \in Ops(c) |-> Nil], errs |-> [i \in Ops(c) |-> Nil]]
           /\ kind[c] = "Race" =>
                /\ mainpc[c] # "returned"
                /\ out[c] = <<>>
                /\ \A i \in Ops(c) : pc[c][i] \in {"idle", "check", "skipped"}

\* a second call, All with one operation, has returned without calling it
C7_Witness ==
    /\ cur = 2
    /\ mainpc[1] = "returned"
    /\ AllReturned(2)
    /\ Len(fns[2]) >= 1
    /\ pc[2][1] = "skipped"
    /\ ret[2] = [rs |-> <<Nil>>, errs |-> <<Nil>>]

\* ------------------------------------------------------------------- C8
\* C8: whenever a call has returned, p.ctx is cancelled: in Race every
\* goroutine that is sending or has sent has called p.cancel before, so the
\* context is cancelled whenever the channel holds an outcome; in All the
\* caller cancels after the barrier (every goroutine terminated) and before
\* it returns.
C8_CancelledOnReturn ==
    \A c \in Calls :
        /\ mainpc[c] = "returned" => ctxDone
        /\ kind[c] = "Race" =>
              /\ Len(out[c]) > 0 => ctxDone
              /\ \A i \in Ops(c) : pc[c][i] \in {"send", "published"} => ctxDone
        /\ kind[c] = "All" =>
              /\ mainpc[c] = "return" => ctxDone
              /\ mainpc[c] \in {"cancel", "return"} => \A i \in Ops(c) : Terminated(c, i)

\* a Race call has returned on an Engine whose parent is not cancelled
C8_Witness ==
    /\ RaceReturned(1)
    /\ ~parentDone
    /\ ctxDone
    /\ \E i \in Ops(1) : pc[1][i] = "published"

\* ------------------------------------------------------------------- C9
\* C9: in an All call on a fresh Engine (parent never cancelled) the signal
\* is triggered only by the caller after all N goroutines have finished:
\* while the context is cancelled the caller is past p.cancel and every
\* goroutine has stored its result; no goroutine ever skips its operation
\* or discards its result, whatever the other operations returned.
C9_AllNeverShortCircuits ==
    \A c \in Calls :
        (Fresh(c) /\ kind[c] = "All")
        => /\ ctxDone =>
                /\ mainpc[c] \in {"return", "returned"}
                /\ \A i \in Ops(c) : pc[c][i] = "stored"
           /\ \A i \in Ops(c) : pc[c][i] \notin {"skipped", "discarded"}
           /\ \A i \in Ops(c) : pc[c][i] = "stored" =>
                (rs[c][i] = r[c][i].res /\ errs[c][i] = r[c][i].err)

\* the first operation has failed and stored its error; the second is
\* called after that, the context still not cancelled
C9_Witness ==
    /\ Fresh(1) /\ kind[1] = "All"
    /\ fns[1] = <<"fail", "ok", "ok">>
    /\ pc[1][1] = "stored" /\ errs[1][1] = 1
    /\ pc[1][2] = "call"
    /\ pc[1][3] = "stored" /\ rs[1][3] = 3
    /\ ~ctxDone

\* ------------------------------------------------------------------ C10
\* C10: the pair Race returns is the pair exactly one operation of the call
\* produced, unmodified; that operation returned no error or is the last
\* one, and its goroutine published. A goroutine whose operation failed
\* and is not the last one never calls p.cancel and never sends.
C10_RaceSingleWinner ==
    \A c \in Calls :
        kind[c] = "Race"
        => /\ mainpc[c] = "returned" =>
                /\ Cardinality({i \in Ops(c) : ret[c] = AsyncFunc(fns[c][i], Index(i))}) = 1
                /\ \E i \in Ops(c) :
                      /\ ret[c] = r[c][i]
                      /\ ret[c] = AsyncFunc(fns[c][i], Index(i))
                      /\ pc[c][i] = "published"
                      /\ fns[c][i] = "ok" \/ i = Len(fns[c])
           /\ \A i \in Ops(c) :
                (fns[c][i] = "fail" /\ i # Len(fns[c]))
                => pc[c][i] \notin {"cancel", "send", "published"}
           /\ \A j \in 1..Len(out[c]) :
                \E i \in Ops(c) : out[c][j] = r[c][i] /\ pc[c][i] = "published"

\* Race on [fail, ok, fail] has returned (2, nil); the first goroutine
\* exited without publishing
C10_Witness ==
    /\ RaceReturned(1)
    /\ fns[1] = <<"fail", "ok", "fail">>
    /\ pc[1][1] = "exited"
    /\ pc[1][2] = "published"
    /\ ret[1] = [res |-> 2, err |-> Nil]

\* ------------------------------------------------------------------ C11
\* a goroutine of Race call c has published: the call has a winner
HasWinner(c) == kind[c] = "Race" /\ \E j \in Ops(c) : pc[c][j] = "published"

\* operation i of call c is cooperative, was invoked, and the call has a winner
InvokedCoopLoser(c, i) ==
    IF i \in Ops(c) THEN HasWinner(c) /\ fns[c][i] = "coop" /\ Invoked(c, i) ELSE FALSE

\* the cooperative operation i of call c has observed the cancellation
FlagSet(c, i) == IF i \in Ops(c) THEN flag[c][i] /\ ctxDone ELSE FALSE

\* C11 as written, as the final result of a run: when Race has returned with
\* a winner and every goroutine has terminated, every cooperative operation
\* of the call has set its flag.
C11_EveryCoopLoserFlags ==
    \A c \in Calls :
        (RaceReturned(c) /\ HasWinner(c) /\ \A i \in Ops(c) : Terminated(c, i))
        => \A i \in Ops(c) : fns[c][i] = "coop" => flag[c][i]

\* C11 amended: under fair scheduling, once Race has a winner, every
\* cooperative operation that was invoked (its goroutine passed the check
\* before the call) eventually sets its flag; a cooperative operation whose
\* goroutine found the context cancelled before the call is never invoked
\* and never sets its flag.
C11_InvokedCoopLoserFlags ==
    /\ \A i \in 1..MaxFairOps :
          InvokedCoopLoser(1, i) ~> FlagSet(1, i)
    /\ [](\A i \in Ops(1) : pc[1][i] = "skipped" => ~flag[1][i])

\* Race on [ok, coop]: the first operation has won, the cooperative loser
\* has set its flag and its result was discarded
C11_Witness ==
    /\ RaceReturned(1)
    /\ ~parentDone
    /\ fns[1] = <<"ok", "coop">>
    /\ pc[1][1] = "published"
    /\ flag[1][2]
    /\ pc[1][2] = "discarded"

\* ------------------------------------------------------------------ C12
\* C12: a Race call with zero operations never returns: it has no
\* goroutine, its channel stays empty and the caller stays at the receive,
\* whatever happens to the parent context.
C12_EmptyRaceBlocks ==
    \A c \in Calls :
        (kind[c] = "Race" /\ Len(fns[c]) = 0)
        => /\ mainpc[c] = "recv"
           /\ out[c] = <<>>
           /\ pc[c] = <<>>
           /\ ret[c] = ZeroResponse

\* Race() has been called, the parent was cancelled, the caller still waits
C12_Witness ==
    /\ kind[1] = "Race"
    /\ Len(fns[1]) = 0
    /\ mainpc[1] = "recv"
    /\ parentDone

\* ------------------------------------------------------------------ C13
\* C13: a goroutine of Race or All that looks at the context before its
\* operation and finds it cancelled does not call the operation; a
\* goroutine that left that way has never called it, holds no response, in
\* Race has no outcome in the channel or returned, and in All has left its
\* value slot and its error slot nil.
C13_SkipsWhenCancelled ==
    [][\A c \in Calls : \A i \in Ops(c) :
          /\ (pc[c][i] = "check" /\ ctxDone)
             => /\ pc'[c][i] \in {"check", "skipped"}
                /\ nInvoke'[c][i] = nInvoke[c][i]
          /\ pc'[c][i] = "skipped"
             => /\ nInvoke'[c][i] = 0
                /\ r'[c][i] = ZeroResponse
                /\ kind[c] = "All" => (rs'[c][i] = Nil /\ errs'[c][i] = Nil)
                /\ kind[c] = "Race" =>
                      /\ \A j \in 1..Len(out'[c]) : out'[c][j] # AsyncFunc(fns[c][i], Index(i))
                      /\ ret'[c] # AsyncFunc(fns[c][i], Index(i))]_vars

\* All on three succeeding operations has returned; the first stored its
\* value, the second found the context cancelled and was never called
C13_Witness ==
    /\ AllReturned(1)
    /\ fns[1] = <<"ok", "ok", "ok">>
    /\ pc[1][1] = "stored"
    /\ pc[1][2] = "skipped" /\ nInvoke[1][2] = 0
    /\ ret[1].rs[1] = 1
    /\ ret[1].rs[2] = Nil /\ ret[1].errs[2] = Nil

\* ------------------------------------------------------------------ C14
\* the pair of operation i as All returned it
RetPair(c, i) == [res |-> ret[c].rs[i], err |-> ret[c].errs[i]]

\* C14: in an All call during which the parent may be cancelled at any
\* moment, a goroutine that finds the context cancelled after its operation
\* discards the result, its two slots stay nil even when the operation
\* returned a value, and when All returns every position holds operation
\* i's own pair or the nil pair.
C14_OwnPairOrNothing ==
    [][\A c \in Calls : \A i \in Ops(c) :
          kind[c] = "All" =>
             /\ (pc[c][i] = "recheck" /\ ctxDone /\ pc'[c][i] # "recheck")
                => pc'[c][i] = "discarded"
             /\ pc'[c][i] = "discarded"
                => (rs'[c][i] = Nil /\ errs'[c][i] = Nil)
             /\ mainpc'[c] = "returned"
                => /\ RetPair(c, i)' \in {AsyncFunc(fns[c][i], Index(i)), ZeroResponse}
                   /\ pc'[c][i] \in {"skipped", "discarded"} => RetPair(c, i)' = ZeroResponse]_vars

\* the first operation returned the value 1, but the parent was cancelled
\* before its goroutine looked at the context again: position 1 is nil,
\* position 2 holds the second operation's error
C14_Witness ==
    /\ AllReturned(1)
    /\ fns[1] = <<"ok", "fail", "ok">>
    /\ pc[1][1] = "discarded" /\ r[1][1] = [res |-> 1, err |-> Nil]
    /\ pc[1][2] = "stored"
    /\ ret[1].rs[1] = Nil /\ ret[1].errs[1] = Nil
    /\ ret[1].errs[2] = 2

\* ------------------------------------------------------------------ C15
\* C15: in an All call position p of the value slice changes only in the
\* step in which goroutine p stores its value, position p of the error
\* slice only in the step in which goroutine p stores its error; a
\* goroutine's store leaves every other position as it was; each goroutine
\* stores once (a goroutine that has stored takes no further step); and
\* once All has returned, no goroutine is left that could still store and
\* neither slice changes.
C15_DisjointSlots ==
    [][\A c \in Calls : \A p \in Ops(c) :
          kind[c] = "All" =>
             /\ rs'[c][p] # rs[c][p]
                => (pc[c][p] = "storeRes" /\ pc'[c][p] = "storeErr")
             /\ errs'[c][p] # errs[c][p]
                => (pc[c][p] = "storeErr" /\ pc'[c][p] = "stored")
             /\ AllStoreRes(c, p)
                => (errs'[c] = errs[c] /\ \A q \in Ops(c) \ {p} : rs'[c][q] = rs[c][q])
             /\ AllStoreErr(c, p)
                => (rs'[c] = rs[c] /\ \A q \in Ops(c) \ {p} : errs'[c][q] = errs[c][q])
             /\ pc[c][p] = "stored" => pc'[c][p] = "stored"
             /\ mainpc[c] = "returned"
                => /\ rs'[c] = rs[c] /\ errs'[c] = errs[c]
                   /\ pc[c][p] \notin {"storeRes", "storeErr"}]_vars

\* goroutines 1 and 3 have stored, goroutine 2 has stored its value slot
\* and not yet its error slot
C15_Witness ==
    /\ kind[1] = "All"
    /\ fns[1] = <<"ok", "fail", "ok">>
    /\ pc[1] = <<"stored", "storeErr", "stored">>
    /\ rs[1] = <<1, Nil, 3>>
    /\ errs[1] = <<Nil, Nil, Nil>>

\* ------------------------------------------------------------------ C16
\* call c is a Race with at least one operation, each of which returns
RaceOfReturningOps(c) ==
    /\ kind[c] = "Race"
    /\ Len(fns[c]) >= 1
    /\ \A i \in Ops(c) : fns[c][i] \in OpKinds

\* the goroutine of the last operation of Race call c is at position p
LastAt(c, p) ==
    IF kind[c] = "Race" /\ Len(fns[c]) >= 1 THEN pc[c][Len(fns[c])] = p ELSE FALSE

\* C16: under fair scheduling a Race call with N >= 1 operations that all
\* return, on a fresh Engine, eventually returns unless the parent is
\* cancelled. While the parent is live the context is cancelled only when
\* some goroutine is sending or has sent, and the last goroutine goes on to
\* p.cancel whenever it finds the context live after its operation.
C16_RaceEventuallyReturns ==
    /\ RaceOfReturningOps(1) ~> (mainpc[1] = "returned" \/ parentDone)
    /\ []((kind[1] = "Race" /\ ctxDone /\ ~parentDone)
            => \E i \in Ops(1) : pc[1][i] \in {"send", "published"})
    /\ [][(LastAt(1, "recheck") /\ ~ctxDone /\ ~LastAt(1, "recheck")')
            => LastAt(1, "cancel")']_vars

\* Race on two failing operations has returned the second one's error
C16_Witness ==
    /\ RaceReturned(1)
    /\ ~parentDone
    /\ fns[1] = <<"fail", "fail">>
    /\ pc[1] = <<"exited", "published">>
    /\ ret[1] = [res |-> Nil, err |-> 2]

\* ------------------------------------------------------------------ C17
\* the parent is cancelled and no goroutine of Race call c has passed the
\* look at the context that follows its operation
ParentCutRace(c) ==
    /\ kind[c] = "Race"
    /\ parentDone
    /\ \A i \in Ops(c) :
          pc[c][i] \in {"idle", "check", "call", "recheck", "skipped", "discarded"}

\* C17: once the parent is cancelled with no goroutine of a Race call past
\* its second look at the context, it stays so: every goroutine skips its
\* operation or discards its result, nothing is sent and Race does not
\* return. An All call whose parent is cancelled returns, under fair
\* scheduling, once its goroutines have finished.
C17_ParentCancelStallsRace ==
    /\ [](\A c \in Calls : ParentCutRace(c) => (mainpc[c] # "returned" /\ out[c] = <<>>))
    /\ [][\A c \in Calls : ParentCutRace(c) => ParentCutRace(c)']_vars
    /\ (kind[1] = "All" /\ parentDone) ~> (mainpc[1] = "returned")

\* both operations have returned, both results were discarded, every
\* goroutine has terminated and the caller still waits at the receive
C17_Witness ==
    /\ kind[1] = "Race"
    /\ parentDone
    /\ fns[1] = <<"ok", "fail">>
    /\ pc[1] = <<"discarded", "discarded">>
    /\ r[1][1] = [res |-> 1, err |-> Nil]
    /\ out[1] = <<>>
    /\ mainpc[1] = "recv"

\* ------------------------------------------------------------------ C18
\* C18: within a call every goroutine calls its operation at most once and
\* looks at the context at most twice, once before and once after the
\* call; a goroutine that has returned takes no further step, and no
\* goroutine goes back to an earlier position.
C18_NoLoop ==
    [][\A c \in Calls : \A i \in 1..Len(fns'[c]) :
          /\ nInvoke'[c][i] <= 1
          /\ nCheck'[c][i] <= 2
          /\ nCheck'[c][i] <= nInvoke'[c][i] + 1
          /\ (i \in Ops(c) /\ Terminated(c, i)) => pc'[c][i] = pc[c][i]
          /\ (i \in Ops(c) /\ pc[c][i] \notin {"idle", "check"}) => pc'[c][i] # "check"
          /\ (i \in Ops(c) /\ pc[c][i] \notin {"check", "call"}) => pc'[c][i] # "call"]_vars

\* Race on [fail, ok, ok]: the first goroutine called its operation once,
\* looked at the context twice and exited; the third found the context
\* cancelled at its only look and never called its operation
C18_Witness ==
    /\ RaceReturned(1)
    /\ fns[1] = <<"fail", "ok", "ok">>
    /\ pc[1][1] = "exited" /\ nInvoke[1][1] = 1 /\ nCheck[1][1] = 2
    /\ pc[1][2] = "published"
    /\ pc[1][3] = "skipped" /\ nInvoke[1][3] = 0 /\ nCheck[1][3] = 1
====
